---- MODULE Spec2Model ----
(***************************************************************************)
(* Model of src/main.py: the transportation model built on the OR-tools    *)
(* linear solver (solve_problem_using_ortools_linear_solver) and the two   *)
(* narration functions of its sensibility analysis.                        *)
(*                                                                         *)
(* One run of the function is one behaviour: pc walks through its blocks   *)
(* in the order of the source, and a run ends at pc = "done" or, when a    *)
(* statement raises, at pc = "raised" with the exception in raised.        *)
(*                                                                         *)
(* Quantities (capacities, demands, fixed quantities, flows) are integers. *)
(* Shadow prices and reduced costs are integers counting thousandths, the  *)
(* rounded values integers counting hundredths.  Identifiers are strings,  *)
(* and the names of variables and constraints are built and cut character  *)
(* by character as the source does.                                        *)
(*                                                                         *)
(* The solver is a collaborator: Solve draws its status and values within  *)
(* its contract, and each narration step draws the dual value or reduced   *)
(* cost the solver reports for the row it narrates.  The printed output is *)
(* kept as the list of sections printed (out) and the sentence of the row  *)
(* narrated last (narr).                                                   *)
(***************************************************************************)
EXTENDS Integers, Sequences, FiniteSets, TLC

VARIABLES
    sSources,              \* data["sSources"], a list
    sCustomers,            \* data["sCustomers"], a list
    pSourceProduction,     \* dict source -> production limit
    pCustomerDemand,       \* dict customer -> demand
    pTransportationCosts,  \* dict (source, customer) -> unit cost
    pFixedTransportation,  \* dict (source, customer) -> mandatory quantity
    variables,             \* solver.variables(): the names, in creation order
    vQuantityExchanged,    \* dict (source, customer) -> index of its variable
    constraints,           \* solver.constraints(): [name, coeffs, lb, ub]
    objective,             \* objective coefficient of every variable index
    status_code,           \* result of solver.Solve()
    solution,              \* solution_value() of every variable index
    pc,                    \* position in solve_problem_using_ortools_linear_solver
    raised,                \* the exception that ended the run, or "none"
    out,                   \* the sections printed so far, in order
    table,                 \* rows of the sensibility table being narrated
    row,                   \* number of rows of the table already processed
    narr                   \* what the last processed row gave

vars == <<sSources, sCustomers, pSourceProduction, pCustomerDemand,
          pTransportationCosts, pFixedTransportation, variables,
          vQuantityExchanged, constraints, objective, status_code, solution,
          pc, raised, out, table, row, narr>>

(***************************************************************************)
(* Bounds of the model and the inputs drawn in Init.                       *)
(***************************************************************************)
MaxQty == 1
MaxRoutes == 2

\* solver.infinity() and float("inf")
Infinity == 1000000

\* The identifier lists of the inputs: "Arn" is a source and, in the longer
\* customer list, a customer as well; "Paris" is not three characters long.
SourceLists == {<<"Arn">>, <<"Arn", "Paris">>}
CustomerLists == {<<"Ams">>, <<"Ams", "Arn">>}
SourceIds == {"Arn", "Paris"}
CustomerIds == {"Ams", "Arn"}
\* the unit cost a data file gives a pair, when it lists the pair
UnitCostOf(p) == IF p[1] = "Arn" THEN 1 ELSE 3
\* dual values and reduced costs the solver may report, in thousandths
Sensitivities == {-2500, -4, 0, 4, 200}

Range(f) == {f[x] : x \in DOMAIN f}

RECURSIVE SumOver(_, _)
SumOver(S, f) ==
    IF S = {} THEN 0
    ELSE LET x == CHOOSE y \in S : TRUE
         IN  f[x] + SumOver(S \ {x}, f)

(***************************************************************************)
(* Identifiers: lines 45, 60, 70, 79 build them, lines 172-173 and 203-204 *)
(* take them apart again.                                                  *)
(***************************************************************************)
VariableName(s, c) == "quantity_in_tons_" \o s \o "_" \o c
ProductionName(s) == "c01_production_" \o s
DemandName(c) == "c02_demand_" \o c
FixedName(s, c) == "c03_fixed_" \o s \o "_" \o c

\* Python's text[a:b] for 0 <= a <= b, clipped to the text
Slice(text, a, b) ==
    LET hi == IF b > Len(text) THEN Len(text) ELSE b
    IN  IF a >= hi THEN "" ELSE SubSeq(text, a + 1, hi)

\* Python's text[-n:] and text[-n:-m] for n > m > 0
LastChars(text, n) == IF n >= Len(text) THEN text ELSE SubSeq(text, Len(text) - n + 1, Len(text))
LastSlice(text, n, m) ==
    LET lo == IF n >= Len(text) THEN 0 ELSE Len(text) - n
        hi == IF m >= Len(text) THEN 0 ELSE Len(text) - m
    IN  Slice(text, lo, hi)

\* int() of a one-character text
DigitValue(ch) ==
    CASE ch = "0" -> 0 [] ch = "1" -> 1 [] ch = "2" -> 2 [] ch = "3" -> 3
      [] ch = "4" -> 4 [] ch = "5" -> 5 [] ch = "6" -> 6 [] ch = "7" -> 7
      [] ch = "8" -> 8 [] ch = "9" -> 9

ConstraintNumber(constraint_name) == DigitValue(Slice(constraint_name, 2, 3))
ConstraintLocation(constraint_name) == LastChars(constraint_name, 3)
VariableSource(variable_name) == LastSlice(variable_name, 7, 4)
VariableCustomer(variable_name) == LastChars(variable_name, 3)

(***************************************************************************)
(* Init: the state after the data file is loaded (lines 11-36) and the     *)
(* solver is instantiated (line 41).  The two lists hold no identifier     *)
(* twice; the production and demand dicts have an entry for every listed   *)
(* identifier; the fixed-transportation dict has entries for some of the   *)
(* pairs of the cost dict.                                                 *)
(***************************************************************************)
AllPairs == SourceIds \X CustomerIds
RouteSets == {R \in SUBSET AllPairs : Cardinality(R) <= MaxRoutes}
NoLine == [effect |-> "none", amount |-> 0, wording |-> "", where |-> <<>>]
NoNarr == [about |-> "", selected |-> FALSE, price |-> 0, line |-> NoLine]

Init ==
    /\ sSources \in SourceLists
    /\ sCustomers \in CustomerLists
    /\ pSourceProduction \in [Range(sSources) -> 0..MaxQty]
    /\ pCustomerDemand \in [Range(sCustomers) -> 0..MaxQty]
    /\ \E R \in RouteSets :
          /\ pTransportationCosts = [p \in R |-> UnitCostOf(p)]
          /\ \E F \in SUBSET R : pFixedTransportation \in [F -> 0..MaxQty]
    /\ variables = <<>>
    /\ vQuantityExchanged = <<>>
    /\ constraints = <<>>
    /\ objective = <<>>
    /\ status_code = "NOT_SOLVED"
    /\ solution = <<>>
    /\ pc = "variables"
    /\ raised = "none"
    /\ out = <<>>
    /\ table = <<>>
    /\ row = 0
    /\ narr = NoNarr

(***************************************************************************)
(* Model building, lines 33-90.                                            *)
(***************************************************************************)
\* line 33: the available combinations of sources and customers
sSources_Customers == DOMAIN pTransportationCosts

\* "for s in sSources for c in sCustomers": the pairs in loop order
LoopPairs ==
    [k \in 1..(Len(sSources) * Len(sCustomers)) |->
        <<sSources[((k - 1) \div Len(sCustomers)) + 1],
          sCustomers[((k - 1) % Len(sCustomers)) + 1]>>]

\* the filter left out: a variable for every pair of the loop
InRoutes_Unfiltered(p) == TRUE

\* "... if (s, c) in sSources_Customers"
InRoutes(p) == p \in sSources_Customers
LoopRoutes == SelectSeq(LoopPairs, InRoutes)

\* lines 44-47: one NumVar per pair of the loop that is a key of the cost dict
CreateVariables ==
    /\ pc = "variables"
    /\ variables' = [k \in 1..Len(LoopRoutes) |->
                        VariableName(LoopRoutes[k][1], LoopRoutes[k][2])]
    /\ vQuantityExchanged' =
           [p \in Range(LoopRoutes) |->
               CHOOSE k \in 1..Len(LoopRoutes) : LoopRoutes[k] = p]
    /\ pc' = "production"
    /\ UNCHANGED <<sSources, sCustomers, pSourceProduction, pCustomerDemand,
                   pTransportationCosts, pFixedTransportation, constraints,
                   objective, status_code, solution, raised, out, table, row,
                   narr>>

\* solver.Add(constraint, name): a sum over no variable is the number 0, the
\* comparison a Python bool, and Add turns True into the row 0 <= 0 <= 0 and
\* False into the row 1 <= 0 <= 1; otherwise the row of the linear expression.
SolverAdd(coeffs, lb, ub, name) ==
    IF coeffs = {}
    THEN IF lb <= 0 /\ 0 <= ub
         THEN [name |-> name, coeffs |-> {}, lb |-> 0, ub |-> 0]
         ELSE [name |-> name, coeffs |-> {}, lb |-> 1, ub |-> 1]
    ELSE [name |-> name, coeffs |-> coeffs, lb |-> lb, ub |-> ub]

\* the variables of the sums of lines 56-58 and 66-68
OutOf(s) == {vQuantityExchanged[<<s, c>>] :
                c \in {d \in Range(sCustomers) : <<s, d>> \in sSources_Customers}}
InTo(c) == {vQuantityExchanged[<<s, c>>] :
                s \in {t \in Range(sSources) : <<t, c>> \in sSources_Customers}}

\* lines 55-61
ProductionConstraint(s) ==
    SolverAdd(OutOf(s), -Infinity, pSourceProduction[s], ProductionName(s))
\* lines 65-71
DemandConstraint(c) ==
    SolverAdd(InTo(c), pCustomerDemand[c], Infinity, DemandName(c))
\* lines 77-80
FixedConstraint(p) ==
    SolverAdd({vQuantityExchanged[p]}, pFixedTransportation[p],
              pFixedTransportation[p], FixedName(p[1], p[2]))

\* lines 54-61: production limit for each source
AddProductionConstraints ==
    /\ pc = "production"
    /\ constraints' = constraints \o
           [i \in 1..Len(sSources) |-> ProductionConstraint(sSources[i])]
    /\ pc' = "demand"
    /\ UNCHANGED <<sSources, sCustomers, pSourceProduction, pCustomerDemand,
                   pTransportationCosts, pFixedTransportation, variables,
                   vQuantityExchanged, objective, status_code, solution,
                   raised, out, table, row, narr>>

\* lines 64-71: demand limit for each customer
AddDemandConstraints ==
    /\ pc = "demand"
    /\ constraints' = constraints \o
           [i \in 1..Len(sCustomers) |-> DemandConstraint(sCustomers[i])]
    /\ pc' = "fixed"
    /\ UNCHANGED <<sSources, sCustomers, pSourceProduction, pCustomerDemand,
                   pTransportationCosts, pFixedTransportation, variables,
                   vQuantityExchanged, objective, status_code, solution,
                   raised, out, table, row, narr>>

\* line 76: pFixedTransportation[s, c] is read for every pair of the loop that
\* is a key of the cost dict; the read raises KeyError when the fixed dict has
\* no entry for the pair
HasFixedEntry(p) == p \in DOMAIN pFixedTransportation
FirstMissing ==
    IF \A k \in 1..Len(LoopRoutes) : HasFixedEntry(LoopRoutes[k])
    THEN Len(LoopRoutes) + 1
    ELSE CHOOSE k \in 1..Len(LoopRoutes) :
             /\ ~HasFixedEntry(LoopRoutes[k])
             /\ \A j \in 1..(k - 1) : HasFixedEntry(LoopRoutes[j])
\* a test for presence instead of truth: zero counts as a fixed quantity
Truthy_Present(v) == TRUE

\* the truth value Python gives a number
Truthy(v) == v # 0
IsFixed(p) == Truthy(pFixedTransportation[p])

\* lines 74-80: the loop up to its end or to the KeyError
AddFixedConstraints ==
    /\ pc = "fixed"
    /\ LET read == SubSeq(LoopRoutes, 1, FirstMissing - 1)
           fixed == SelectSeq(read, IsFixed)
       IN  constraints' = constraints \o
               [i \in 1..Len(fixed) |-> FixedConstraint(fixed[i])]
    /\ IF FirstMissing <= Len(LoopRoutes)
       THEN pc' = "raised" /\ raised' = "KeyError"
       ELSE pc' = "objective" /\ raised' = raised
    /\ UNCHANGED <<sSources, sCustomers, pSourceProduction, pCustomerDemand,
                   pTransportationCosts, pFixedTransportation, variables,
                   vQuantityExchanged, objective, status_code, solution, out,
                   table, row, narr>>

\* lines 85-90: the coefficient of each variable in the objective
Minimize ==
    /\ pc = "objective"
    /\ objective' = [k \in DOMAIN variables |-> pTransportationCosts[LoopRoutes[k]]]
    /\ pc' = "solve"
    /\ UNCHANGED <<sSources, sCustomers, pSourceProduction, pCustomerDemand,
                   pTransportationCosts, pFixedTransportation, variables,
                   vQuantityExchanged, constraints, status_code, solution,
                   raised, out, table, row, narr>>

(***************************************************************************)
(* The solve, line 93.  GLOP is a collaborator: it answers with a status,  *)
(* and for OPTIMAL or FEASIBLE with values that satisfy every row.  Every  *)
(* variable stands in the production row of its source, so no value is     *)
(* above the largest production limit; with whole-number data the vertices *)
(* of a transportation problem are whole numbers.                          *)
(***************************************************************************)
Max(S) == IF S = {} THEN 0 ELSE CHOOSE m \in S : \A n \in S : n <= m
Assignments == [DOMAIN variables -> 0..Max(Range(pSourceProduction))]

\* solver.ComputeConstraintActivities(), line 127: the row's left-hand side
Activity(c, x) == SumOver(c.coeffs, x)
Feasible(x) ==
    \A i \in DOMAIN constraints :
        /\ constraints[i].lb <= Activity(constraints[i], x)
        /\ Activity(constraints[i], x) <= constraints[i].ub
\* solver.Objective().Value(), line 110
ObjectiveValue(x) == SumOver(DOMAIN variables, [k \in DOMAIN variables |-> objective[k] * x[k]])
Optimal(x) ==
    /\ Feasible(x)
    /\ \A y \in Assignments : Feasible(y) => ObjectiveValue(x) <= ObjectiveValue(y)

Solve ==
    /\ pc = "solve"
    /\ \/ \E x \in Assignments :
             /\ Optimal(x)
             /\ status_code' = "OPTIMAL"
             /\ solution' = x
       \/ \E x \in Assignments :
             /\ Feasible(x)
             /\ status_code' = "FEASIBLE"
             /\ solution' = x
       \/ /\ \A x \in Assignments : ~Feasible(x)
          /\ status_code' = "INFEASIBLE"
          /\ solution' = solution
       \/ /\ status_code' = "ABNORMAL"
          /\ solution' = solution
    /\ pc' = "solved"
    /\ UNCHANGED <<sSources, sCustomers, pSourceProduction, pCustomerDemand,
                   pTransportationCosts, pFixedTransportation, variables,
                   vQuantityExchanged, constraints, objective, raised, out,
                   table, row, narr>>

(***************************************************************************)
(* The report, lines 96-166.                                               *)
(***************************************************************************)
\* line 96
Solved == status_code = "FEASIBLE" \/ status_code = "OPTIMAL"

\* lines 96-98
PrintFailure ==
    /\ pc = "solved"
    /\ ~Solved
    /\ out' = out \o <<"The solver could not solve the problem.">>
    /\ pc' = "done"
    /\ UNCHANGED <<sSources, sCustomers, pSourceProduction, pCustomerDemand,
                   pTransportationCosts, pFixedTransportation, variables,
                   vQuantityExchanged, constraints, objective, status_code,
                   solution, raised, table, row, narr>>

\* lines 102-110
PrintStatus ==
    /\ pc = "solved"
    /\ Solved
    /\ LET status_text == IF status_code = "OPTIMAL" THEN "Optimal"
                          ELSE "Feasible, but not optimal"
       IN  out' = out \o <<"Solver status: " \o status_text,
                           "Total transportation cost: ">>
    /\ pc' = "flows"
    /\ UNCHANGED <<sSources, sCustomers, pSourceProduction, pCustomerDemand,
                   pTransportationCosts, pFixedTransportation, variables,
                   vQuantityExchanged, constraints, objective, status_code,
                   solution, raised, table, row, narr>>

\* lines 113-117
dict_quantity_sources_customers ==
    [p \in {q \in Range(LoopRoutes) : solution[vQuantityExchanged[q]] > 0} |->
        solution[vQuantityExchanged[p]]]

\* lines 112-124; pd.MultiIndex.from_tuples raises TypeError ("Cannot infer
\* number of levels from empty list") when the dict has no key
PrintFlows ==
    /\ pc = "flows"
    /\ IF DOMAIN dict_quantity_sources_customers = {}
       THEN /\ out' = out \o <<"Quantity exchanged between sources and customers:">>
            /\ raised' = "TypeError"
            /\ pc' = "raised"
       ELSE /\ out' = out \o <<"Quantity exchanged between sources and customers:",
                               "df_quantity_sources_customers">>
            /\ raised' = raised
            /\ pc' = "constraints"
    /\ UNCHANGED <<sSources, sCustomers, pSourceProduction, pCustomerDemand,
                   pTransportationCosts, pFixedTransportation, variables,
                   vQuantityExchanged, constraints, objective, status_code,
                   solution, table, row, narr>>

\* float subtraction a - b of a bound and a finite activity: an infinite
\* bound stays infinite
BoundMinus(a, b) ==
    IF a = Infinity \/ a = -Infinity THEN a ELSE a - b

\* the slack taken against the lower bound of the row
Slack_Lower(c) ==
    IF BoundMinus(c.lb, Activity(c, solution)) # -Infinity
    THEN BoundMinus(c.lb, Activity(c, solution))
    ELSE 0

\* line 131
Slack(c) ==
    IF BoundMinus(c.ub, Activity(c, solution)) # Infinity
    THEN BoundMinus(c.ub, Activity(c, solution))
    ELSE 0

\* lines 126-138: the table of the constraints
PrintConstraintsTable ==
    /\ pc = "constraints"
    /\ table' = [i \in DOMAIN constraints |->
                    [name |-> constraints[i].name, test |-> Slack(constraints[i])]]
    /\ row' = 0
    /\ out' = out \o <<"Sensibility analysis - constraints:",
                       "df_sensibility_analysis_constraints">>
    /\ pc' = "constraint_rows"
    /\ UNCHANGED <<sSources, sCustomers, pSourceProduction, pCustomerDemand,
                   pTransportationCosts, pFixedTransportation, variables,
                   vQuantityExchanged, constraints, objective, status_code,
                   solution, raised, narr>>

\* no rounding: the sign test sees the raw value
Round2_Raw(value) == value

\* round(value, 2) of a number of thousandths, in hundredths.  The values of
\* Sensitivities are no ties (no last digit 5).
Round2(value) ==
    IF value >= 0 THEN (value + 5) \div 10 ELSE -((5 - value) \div 10)

Abs(value) == IF value < 0 THEN -value ELSE value

\* the three branches on the rounded value, lines 177-186, 188-197, 207-216
Sentence(value, wording, where) ==
    IF value < 0
    THEN [effect |-> "reduced by", amount |-> Abs(value), wording |-> wording, where |-> where]
    ELSE IF value > 0
    THEN [effect |-> "increased in", amount |-> value, wording |-> wording, where |-> where]
    ELSE [effect |-> "remain equal", amount |-> 0, wording |-> wording, where |-> where]

\* the guard on the constraint number widened to the third kind
print_conclusions_constraints_AnyKind(constraint_name, shadow_price, sources) ==
    LET location == ConstraintLocation(constraint_name)
        rounded == Round2(shadow_price)
    IN  IF ConstraintNumber(constraint_name) <= 3 /\ location \in Range(sources)
        THEN Sentence(rounded, "available in", <<location>>)
        ELSE Sentence(rounded, "supply at", <<location>>)

\* lines 169-197
print_conclusions_constraints_sensibility_analysis(constraint_name, shadow_price, sources) ==
    LET constraint_number == ConstraintNumber(constraint_name)
        location == ConstraintLocation(constraint_name)
        rounded == Round2(shadow_price)
    IN  IF constraint_number <= 2 /\ location \in Range(sources)
        THEN Sentence(rounded, "available in", <<location>>)
        ELSE IF constraint_number <= 2
        THEN Sentence(rounded, "supply at", <<location>>)
        ELSE NoLine

\* lines 200-216
print_conclusions_variables_sensibility_analysis(variable_name, reduced_cost) ==
    LET source == VariableSource(variable_name)
        customer == VariableCustomer(variable_name)
        rounded == Round2(reduced_cost)
    IN  Sentence(rounded, "supply from", <<source, customer>>)

\* lines 141-145, one row of the table at a time: the rows with Slack == 0
\* go to the narration, with the dual value the solver reports for the row
NarrateConstraint ==
    /\ pc = "constraint_rows"
    /\ row < Len(table)
    /\ LET r == table[row + 1]
       IN  IF r.test = 0
           THEN \E shadow_price \in Sensitivities :
                   narr' = [about |-> r.name, selected |-> TRUE, price |-> shadow_price,
                            line |-> print_conclusions_constraints_sensibility_analysis(
                                         r.name, shadow_price, sSources)]
           ELSE narr' = [about |-> r.name, selected |-> FALSE, price |-> 0, line |-> NoLine]
    /\ row' = row + 1
    /\ UNCHANGED <<sSources, sCustomers, pSourceProduction, pCustomerDemand,
                   pTransportationCosts, pFixedTransportation, variables,
                   vQuantityExchanged, constraints, objective, status_code,
                   solution, pc, raised, out, table>>

\* lines 146-158: the table of the variables
PrintVariablesTable ==
    /\ pc = "constraint_rows"
    /\ row = Len(table)
    /\ table' = [k \in DOMAIN variables |->
                    [name |-> variables[k], test |-> solution[k]]]
    /\ row' = 0
    /\ narr' = NoNarr
    /\ out' = out \o <<"Sensibility analysis - variables:",
                       "df_sensibility_analysis_variables">>
    /\ pc' = "variable_rows"
    /\ UNCHANGED <<sSources, sCustomers, pSourceProduction, pCustomerDemand,
                   pTransportationCosts, pFixedTransportation, variables,
                   vQuantityExchanged, constraints, objective, status_code,
                   solution, raised>>

\* lines 161-165, one row at a time: the rows with Value == 0 go to the
\* narration, with the reduced cost the solver reports for the variable
NarrateVariable ==
    /\ pc = "variable_rows"
    /\ row < Len(table)
    /\ LET r == table[row + 1]
       IN  IF r.test = 0
           THEN \E reduced_cost \in Sensitivities :
                   narr' = [about |-> r.name, selected |-> TRUE, price |-> reduced_cost,
                            line |-> print_conclusions_variables_sensibility_analysis(
                                         r.name, reduced_cost)]
           ELSE narr' = [about |-> r.name, selected |-> FALSE, price |-> 0, line |-> NoLine]
    /\ row' = row + 1
    /\ UNCHANGED <<sSources, sCustomers, pSourceProduction, pCustomerDemand,
                   pTransportationCosts, pFixedTransportation, variables,
                   vQuantityExchanged, constraints, objective, status_code,
                   solution, pc, raised, out, table>>

\* line 166: the end of the report
Finish ==
    /\ pc = "variable_rows"
    /\ row = Len(table)
    /\ pc' = "done"
    /\ UNCHANGED <<sSources, sCustomers, pSourceProduction, pCustomerDemand,
                   pTransportationCosts, pFixedTransportation, variables,
                   vQuantityExchanged, constraints, objective, status_code,
                   solution, raised, out, table, row, narr>>

Next ==
    \/ CreateVariables
    \/ AddProductionConstraints
    \/ AddDemandConstraints
    \/ AddFixedConstraints
    \/ Minimize
    \/ Solve
    \/ PrintFailure
    \/ PrintStatus
    \/ PrintFlows
    \/ PrintConstraintsTable
    \/ NarrateConstraint
    \/ PrintVariablesTable
    \/ NarrateVariable
    \/ Finish

Spec == Init /\ [][Next]_vars
(***************************************************************************)
(* The properties.                                                         *)
(***************************************************************************)
NS == Len(sSources)
NC == Len(sCustomers)
\* the keys of the cost dict whose source and customer are both listed
ListedRoutes ==
    {p \in sSources_Customers : p[1] \in Range(sSources) /\ p[2] \in Range(sCustomers)}
\* the routes with a fixed quantity that is present and not zero
FixedRoutes ==
    {p \in ListedRoutes : p \in DOMAIN pFixedTransportation /\ pFixedTransportation[p] # 0}
VariablesCreated == pc # "variables"
ConstraintsAdded == pc \notin {"variables", "production", "demand", "fixed"}
Built == ConstraintsAdded /\ raised # "KeyError"
RunEnded == pc \in {"done", "raised"}
FailureOnly == out = <<"The solver could not solve the problem.">>
FullReport ==
    /\ \E i \in DOMAIN out : out[i] = "Solver status: Optimal"
                             \/ out[i] = "Solver status: Feasible, but not optimal"
    /\ \A section \in {"Total transportation cost: ", "df_quantity_sources_customers",
                       "df_sensibility_analysis_constraints",
                       "df_sensibility_analysis_variables"} :
           \E i \in DOMAIN out : out[i] = section
\* the row of the constraints table the last narration step looked at
AtConstraintRow == pc = "constraint_rows" /\ row >= 1
AtVariableRow == pc = "variable_rows" /\ row >= 1
IsCapacityRow == row <= NS
IsDemandRow == row > NS /\ row <= NS + NC
IsFixedRow == row > NS + NC
Narrated == narr.line # NoLine

\* C1 as stated: once the variables are created, the pairs that have a
\* variable are exactly the keys of the cost dict, one variable each.
C1_AsStated ==
    VariablesCreated =>
        /\ DOMAIN vQuantityExchanged = sSources_Customers
        /\ Len(variables) = Cardinality(sSources_Customers)

\* C1 amended: once the variables are created, the pairs that have a variable
\* are exactly the keys of the cost dict whose source is in the source list
\* and whose customer is in the customer list; each has one variable of its
\* own, named after the pair, and the solver holds no other variable.
C1_VariablesAreListedRoutes ==
    VariablesCreated =>
        /\ DOMAIN vQuantityExchanged = ListedRoutes
        /\ Len(variables) = Cardinality(ListedRoutes)
        /\ \A p \in ListedRoutes :
               /\ vQuantityExchanged[p] \in DOMAIN variables
               /\ variables[vQuantityExchanged[p]] = VariableName(p[1], p[2])
        /\ \A p, q \in ListedRoutes :
               vQuantityExchanged[p] = vQuantityExchanged[q] => p = q

C1_Witness ==
    /\ VariablesCreated
    /\ ListedRoutes # {}
    /\ ListedRoutes # sSources_Customers

\* C2 as stated: decoding the name of the variable of a route gives back its
\* source and customer, and decoding the name of the Capacity constraint of a
\* source, or of the Demand constraint of a customer, gives back the kind
\* (1 or 2) and that location.
C2_RoundTrip ==
    /\ VariablesCreated =>
           \A p \in DOMAIN vQuantityExchanged :
               <<VariableSource(variables[vQuantityExchanged[p]]),
                 VariableCustomer(variables[vQuantityExchanged[p]])>> = p
    /\ ConstraintsAdded =>
           /\ \A i \in 1..NS :
                  /\ ConstraintNumber(constraints[i].name) = 1
                  /\ ConstraintLocation(constraints[i].name) = sSources[i]
           /\ \A j \in 1..NC :
                  /\ ConstraintNumber(constraints[NS + j].name) = 2
                  /\ ConstraintLocation(constraints[NS + j].name) = sCustomers[j]

\* C3 as stated: after the solve, the run gives the full report (status,
\* objective, flow table, both sensibility tables) exactly when the status is
\* OPTIMAL or FEASIBLE; for any other status it prints the failure message
\* alone, computes nothing else and raises nothing.
C3_ReportIffSolved ==
    (RunEnded /\ raised # "KeyError") =>
        /\ Solved <=> FullReport
        /\ ~Solved => /\ FailureOnly
                      /\ raised = "none"
                      /\ solution = <<>>
                      /\ table = <<>>

\* C4 as stated: the model building ends normally, with one equality
\* constraint (variable of the route = fixed quantity) for each route whose
\* fixed quantity is present and not zero, and none for a route whose fixed
\* quantity is zero or absent.
C4_FixedFlowConstraints ==
    (ConstraintsAdded \/ pc = "raised") =>
        /\ raised # "KeyError"
        /\ Len(constraints) = NS + NC + Cardinality(FixedRoutes)
        /\ \A p \in FixedRoutes :
               \E i \in (NS + NC + 1)..Len(constraints) :
                   /\ constraints[i].coeffs = {vQuantityExchanged[p]}
                   /\ constraints[i].lb = pFixedTransportation[p]
                   /\ constraints[i].ub = pFixedTransportation[p]

\* C5 as stated: a constraint that goes to the narration is binding: the
\* activity of a Capacity constraint equals the production limit of its
\* source, that of a Demand constraint the demand of its customer.
C5_AsStated ==
    (AtConstraintRow /\ narr.selected) =>
        /\ IsCapacityRow =>
               Activity(constraints[row], solution) = pSourceProduction[sSources[row]]
        /\ IsDemandRow =>
               Activity(constraints[row], solution) = pCustomerDemand[sCustomers[row - NS]]

\* C5 amended: a Capacity constraint over at least one route goes to the
\* narration only when its activity equals the production limit of its
\* source, and a FixedFlow constraint only with its activity equal to the
\* fixed quantity; a Demand constraint over at least one route has no finite
\* upper bound, is given the slack 0 and always goes to the narration,
\* whatever its activity; a Capacity or Demand constraint over no route is
\* the row 0 = 0 and always goes to the narration.
C5_SelectedRows ==
    AtConstraintRow =>
        /\ (IsCapacityRow /\ OutOf(sSources[row]) # {} /\ narr.selected) =>
               Activity(constraints[row], solution) = pSourceProduction[sSources[row]]
        /\ (IsFixedRow /\ narr.selected) =>
               \E p \in FixedRoutes :
                   /\ constraints[row].coeffs = {vQuantityExchanged[p]}
                   /\ Activity(constraints[row], solution) = pFixedTransportation[p]
        /\ IsDemandRow => narr.selected
        /\ (IsCapacityRow /\ OutOf(sSources[row]) = {}) => narr.selected

C5_Witness ==
    /\ AtConstraintRow
    /\ narr.selected
    /\ IsCapacityRow
    /\ OutOf(sSources[row]) # {}
    /\ \E i \in (NS + 1)..(NS + NC) :
           /\ constraints[i].coeffs # {}
           /\ Activity(constraints[i], solution) > constraints[i].lb

\* C6 as stated: the number of variables is the number of keys of the cost
\* dict and the number of constraints is one per source plus one per
\* customer; a count given by the numbers of routes, sources and customers
\* alone has to be this one, since it is the count of the inputs with no
\* fixed quantity.
C6_AsStated ==
    Built =>
        /\ Len(variables) = Cardinality(sSources_Customers)
        /\ Len(constraints) = NS + NC

\* C6 amended: the number of variables is the number of keys of the cost
\* dict with a listed source and a listed customer, and the number of
\* constraints is the number of sources plus the number of customers plus
\* the number of these routes whose fixed quantity is not zero.
C6_Counts ==
    Built =>
        /\ Len(variables) = Cardinality(ListedRoutes)
        /\ Len(constraints) = NS + NC + Cardinality(FixedRoutes)

C6_Witness ==
    /\ Built
    /\ FixedRoutes # {}
    /\ \E s \in Range(sSources) : OutOf(s) = {}

\* C7 as stated: when the demands of the customers add up to more than the
\* production limits of the sources, the run ends with a status that is
\* neither OPTIMAL nor FEASIBLE and with the failure message as its whole
\* output.
C7_DemandAboveCapacity ==
    (RunEnded /\ SumOver(Range(sCustomers), pCustomerDemand)
                    > SumOver(Range(sSources), pSourceProduction)) =>
        /\ pc = "done"
        /\ ~Solved
        /\ FailureOnly

\* C8: in both narrations the sentence follows the sign of the value rounded
\* to 2 decimals: a value within 0.005 of zero gives "remain equal", a value
\* below gives "reduced by" with the rounded absolute value, a value above
\* gives "increased in" with the rounded value.
C8_RoundBeforeSign ==
    ((AtConstraintRow \/ AtVariableRow) /\ Narrated) =>
        /\ narr.line.effect = "remain equal" <=> (narr.price > -5 /\ narr.price < 5)
        /\ narr.line.effect = "reduced by" <=> narr.price < -5
        /\ narr.line.effect = "increased in" <=> narr.price > 5
        /\ 10 * narr.line.amount - Abs(narr.price) \in -5..5

C8_Witness ==
    /\ AtVariableRow
    /\ Narrated
    /\ narr.price = -4
    /\ narr.line.effect = "remain equal"

\* C9 as stated: a narrated Capacity constraint reads "available in" with its
\* source, a narrated Demand constraint reads "supply at" with its customer.
C9_Wording ==
    (AtConstraintRow /\ Narrated) =>
        /\ IsCapacityRow =>
               /\ narr.line.wording = "available in"
               /\ narr.line.where = <<sSources[row]>>
        /\ IsDemandRow =>
               /\ narr.line.wording = "supply at"
               /\ narr.line.where = <<sCustomers[row - NS]>>

\* C10: in a reported solution every FixedFlow constraint has the slack 0 and
\* goes to the narration, and gives no sentence, whatever its shadow price;
\* only Capacity and Demand constraints give a sentence.
C10_FixedFlowSilent ==
    /\ (RunEnded /\ Solved /\ Len(constraints) > NS + NC) => raised = "none"
    /\ pc = "constraint_rows" =>
           \A i \in (NS + NC + 1)..Len(table) : table[i].test = 0
    /\ AtConstraintRow =>
           /\ IsFixedRow => (narr.selected /\ ~Narrated)
           /\ Narrated => ConstraintNumber(narr.about) \in {1, 2}

C10_Witness ==
    /\ AtConstraintRow
    /\ IsFixedRow
    /\ narr.selected
    /\ narr.price = -2500
    /\ ~Narrated
====
